---- MODULE Spec2Model ----
(***************************************************************************)
(* Model of ec-scraper/scripts/quick_discovery.py: the quick discovery     *)
(* pipeline (main and the script's top-level handler), its per-URL         *)
(* extraction task extract_and_save, and the single-URL path process_url.  *)
(*                                                                         *)
(* Python values are modelled as follows.                                  *)
(*   - Optional values: None is <<>>, a present value v is <<v>>.          *)
(*   - Text that the code inspects (titles, exception messages, the        *)
(*     DATABASE_URL value) is a sequence of one-character strings.         *)
(*   - A confidence is an integer number of hundredths (0.4 is 40).        *)
(*   - A message is the sequence of its parts: the literal text of the     *)
(*     f-string first, then the characters of the formatted value.         *)
(***************************************************************************)
EXTENDS Integers, Sequences, FiniteSets, TLC

VARIABLES
    pc,             \* position of main / the top-level handler
    db_env,         \* os.getenv("DATABASE_URL"): Optional text
    events,         \* the JSON lines written to stdout, in order
    exit_code,      \* process exit status set by the top-level handler
    connect_calls,  \* number of sync.connect() calls made
    close_calls,    \* number of sync.close() calls made
    emb_active,     \* embeddings and vector_db and settings.use_embeddings
    search_results, \* per expanded query: the state of do_search and the list it returned
    all_urls,       \* the set all_urls
    urls_to_process,\* the list urls_to_process
    crawl_results,  \* the list returned by crawler.crawl_batch
    tasks,          \* per crawl result: the state of its extract_and_save task
    permits,        \* extraction_semaphore._value
    success_count,  \* success_count of the reporting loop
    fx,             \* single-URL harness: the extraction outcome under test
    fpath,          \* single-URL harness: "process_url" or "extract_and_save"
    fpc,            \* single-URL harness: position in the function body
    fcrawl,         \* single-URL harness: the crawl outcome under test
    fhanded,        \* single-URL harness: records handed to upsert_opportunity
    fcard,          \* single-URL harness: the extraction's ec_card object (Optional)
    fresult,        \* single-URL harness: the returned dict (Optional)
    cresponse,      \* search harness: the backend response under test
    cmax,           \* search harness: the max_results argument
    creturned       \* search harness: the list search returned (Optional)

vars == << pc, db_env, events, exit_code, connect_calls, close_calls, emb_active,
           search_results, all_urls, urls_to_process, crawl_results, tasks,
           permits, success_count, fx, fpath, fpc, fcrawl, fhanded, fcard, fresult,
           cresponse, cmax, creturned >>

pipeVars == << pc, db_env, events, exit_code, connect_calls, close_calls, emb_active,
               search_results, all_urls, urls_to_process, crawl_results, tasks,
               permits, success_count >>

filterVars == << fx, fpath, fpc, fcrawl, fhanded, fcard, fresult >>

clientVars == << cresponse, cmax, creturned >>

harnessVars == << filterVars, clientVars >>

(***************************************************************************)
(* Python values                                                           *)
(***************************************************************************)
None == << >>

Some(v) == << v >>

Take(s, n) == SubSeq(s, 1, IF Len(s) < n THEN Len(s) ELSE n)

\* str.lower() on the letters the model's titles use
LowerChar(c) ==
    CASE c = "A" -> "a" [] c = "B" -> "b" [] c = "C" -> "c" [] c = "D" -> "d"
      [] c = "E" -> "e" [] c = "I" -> "i" [] c = "K" -> "k" [] c = "L" -> "l"
      [] c = "M" -> "m" [] c = "O" -> "o" [] c = "P" -> "p" [] c = "R" -> "r"
      [] c = "S" -> "s" [] c = "T" -> "t" [] c = "U" -> "u"
      [] OTHER -> c

Lower(s) == [i \in 1..Len(s) |-> LowerChar(s[i])]

\* the Python test  sub in s
Contains(s, sub) ==
    \E i \in 0..(Len(s) - Len(sub)) : \A k \in 1..Len(sub) : s[i + k] = sub[k]

Digit(n) == << "0", "1", "2", "3", "4", "5", "6", "7", "8", "9" >>[n + 1]

\* str(n) for a non-negative integer below 1000
Str(n) ==
    IF n < 10 THEN << Digit(n) >>
    ELSE IF n < 100 THEN << Digit(n \div 10), Digit(n % 10) >>
    ELSE << Digit(n \div 100), Digit((n \div 10) % 10), Digit(n % 10) >>

\* f"{confidence:.2f}" for a confidence of c hundredths, 0 <= c <= 999
Fmt2f(c) == << Digit(c \div 100), ".", Digit((c \div 10) % 10), Digit(c % 10) >>

(***************************************************************************)
(* Texts used by the code and by the modelled inputs                       *)
(***************************************************************************)
TitleUnknown == << "U", "n", "k", "n", "o", "w", "n", " ", "O", "p", "p", "o", "r", "t", "u", "n", "i", "t", "y" >>

TitleTop == << "T", "o", "p", " ", "1", "0", " ", "S", "u", "m", "m", "e", "r", " ", "P", "r", "o", "g", "r", "a", "m", "s" >>

TitleBest == << "B", "E", "S", "T", " ", "L", "a", "b", "s" >>

TitleList == << "L", "i", "s", "t", " ", "o", "f", " ", "C", "a", "m", "p", "s" >>

TitleRank == << "M", "a", "t", "h", " ", "R", "a", "n", "k", "i", "n", "g", "s" >>

TitleNumeric == << "1", "0", "0", " ", "D", "a", "y", "s", " ", "o", "f", " ", "C", "o", "d", "e" >>

TitleClean == << "R", "o", "b", "o", "t", "i", "c", "s", " ", "C", "a", "m", "p" >>

MarkBest == << "b", "e", "s", "t", " " >>

MarkTop == << "t", "o", "p", " " >>

MarkRanking == << "r", "a", "n", "k", "i", "n", "g" >>

MarkListOf == << "l", "i", "s", "t", " ", "o", "f" >>

Mark94 == << "9", "4", " " >>

Mark100 == << "1", "0", "0", " " >>

MsgBoom == << "b", "o", "o", "m" >>

\* the marker list of extract_and_save
BatchMarkers == { MarkBest, MarkTop, MarkRanking, MarkListOf }

\* the marker list of process_url
SingleMarkers == { MarkBest, MarkTop, MarkRanking, MarkListOf, Mark94, Mark100 }

RecurringFamily == { "ANNUAL", "RECURRING", "SEASONAL" }

TimingTypes == { "ONE_TIME" } \cup RecurringFamily

GenericOrganizations == { Some("Unknown"), None, Some("") }

\* confidence threshold 0.4, in hundredths
ConfidenceThreshold == 40

PriorityRecheckDays == 3

ErrorTruncation == 100

(***************************************************************************)
(* The acceptance rules shared by process_url and extract_and_save         *)
(***************************************************************************)
\* confidence = extraction.confidence or 0.0
ConfidenceOf(x) == IF x.confidence = None THEN 0 ELSE x.confidence[1]

\* variant: the threshold taken as inclusive
LowConfidenceInclusive(confidence) == confidence <= ConfidenceThreshold

LowConfidence(confidence) == confidence < ConfidenceThreshold

\* variant: only the title is checked
IsGenericTitleOnly(ec) == ec.title = TitleUnknown

IsGeneric(ec) == ec.title = TitleUnknown \/ ec.organization \in GenericOrganizations

\* variant: the markers compared without lower-casing the title
IsRankingCaseSensitive(title, markers) ==
    LET title_lower == title
    IN  \E skip \in markers : Contains(title_lower, skip)

IsRanking(title, markers) ==
    LET title_lower == Lower(title)
    IN  \E skip \in markers : Contains(title_lower, skip)

\* variant: the timing type compared with a value the enum does not have
ExpiredOneTimeMisspelt(ec) == ec.is_expired /\ ec.timing_type = "ONETIME"

ExpiredOneTime(ec) == ec.is_expired /\ ec.timing_type = "ONE_TIME"

\* variant: SEASONAL left out of the recurring family
ExpiredRecurringNoSeasonal(ec) == ec.is_expired /\ ec.timing_type \in { "ANNUAL", "RECURRING" }

ExpiredRecurring(ec) == ec.is_expired /\ ec.timing_type \in RecurringFamily

\* ec.recheck_days = 3 when the record is expired and recurring
WithPriorityRecheck(ec) ==
    IF ExpiredRecurring(ec) THEN [ec EXCEPT !.recheck_days = PriorityRecheckDays] ELSE ec

\* a decision: accept or not, the error text, and the ec_card object as the checks leave it
Reject(text, card) == [accept |-> FALSE, error |-> text, ec |-> card]

Accept(ec) == [accept |-> TRUE, error |-> << >>, ec |-> Some(ec)]

\* the checks between extractor.extract returning and sync.upsert_opportunity
Decide(x, markers) ==
    IF ~x.success THEN Reject(<< "Extraction failed: " >> \o x.error, x.ec_card)
    ELSE IF x.ec_card = None THEN Reject(<< "No card extracted" >>, x.ec_card)
    ELSE LET ec == x.ec_card[1]
             confidence == ConfidenceOf(x)
         IN  IF LowConfidence(confidence)
                 THEN Reject(<< "Low confidence: " >> \o Fmt2f(confidence), x.ec_card)
             ELSE IF IsGeneric(ec) THEN Reject(<< "Generic extraction" >>, x.ec_card)
             ELSE IF IsRanking(ec.title, markers)
                 THEN Reject(<< "Ranking article: " >> \o ec.title, x.ec_card)
             ELSE IF ExpiredOneTime(ec)
                 THEN Reject(<< "Expired one-time opportunity (deadline/end date in the past)" >>,
                             x.ec_card)
             ELSE Accept(WithPriorityRecheck(ec))

DecideBatch(x) == Decide(x, BatchMarkers)

DecideSingle(x) == Decide(x, SingleMarkers)

\* the dict returned for a failure: {"error": text, "url": url}
ErrorResult(text) == [success |-> FALSE, error |-> text, card |-> None]

\* the dict returned for an accepted record: {"success": True, "url": url, "card": {...}}
SuccessResult(ec) ==
    [success |-> TRUE, error |-> << >>,
     card |-> Some([title |-> ec.title, organization |-> ec.organization])]

\* except Exception as e: {"error": str(e)[:100], "url": url}
ExceptionResult(msg) == ErrorResult(Take(msg, ErrorTruncation))

(***************************************************************************)
(* Inputs: what the extraction agent can return                            *)
(***************************************************************************)
Titles == { TitleUnknown, TitleTop, TitleBest, TitleList, TitleRank, TitleNumeric, TitleClean }

Organizations == { None, Some(""), Some("Unknown"), Some("MIT") }

\* absent, 0.0, 0.39, 0.4 and 0.9
Confidences == { None, Some(0), Some(39), Some(40), Some(90) }

RecheckInputs == { 3, 14 }

Cards ==
    [title : Titles, organization : Organizations, is_expired : BOOLEAN,
     timing_type : TimingTypes, recheck_days : RecheckInputs]

ExceptionMessages == { << >>, MsgBoom, [i \in 1..(ErrorTruncation + 1) |-> "x"] }

\* every ExtractionResult over the sets above
AllExtractions ==
    [success : BOOLEAN, error : { MsgBoom },
     ec_card : { None } \cup { Some(c) : c \in Cards }, confidence : Confidences]

(***************************************************************************)
(* SearXNGClient.search (src/search/searxng_client.py)                     *)
(***************************************************************************)
\* a SearchResult: the fields main reads
SearchHit(url, title) == [url |-> url, title |-> title]

\* max_results as do_search passes it
SearchMaxResults == 10

\* urls[:3]
InfoboxUrlLimit == 3

\* a backend response: kind is "ok" (status 200 with a JSON object), "status"
\* (another status), "transport" (aiohttp.ClientError) or "malformed" (the body
\* is not the JSON the code reads)
Response(kind, results, infoboxes) == [kind |-> kind, results |-> results, infoboxes |-> infoboxes]

Infobox(name, urls) == [infobox |-> name, urls |-> urls]

\* the SearchResult list built from one infobox
InfoboxResults(box) ==
    [i \in 1..Len(Take(box.urls, InfoboxUrlLimit)) |->
        SearchHit(box.urls[i].url, << box.infobox, ": " >> \o box.urls[i].title)]

RECURSIVE AllInfoboxResults(_)
AllInfoboxResults(infoboxes) ==
    IF infoboxes = << >> THEN << >>
    ELSE InfoboxResults(Head(infoboxes)) \o AllInfoboxResults(Tail(infoboxes))

\* the list search returns
ClientSearch(response, max_results) ==
    IF response.kind # "ok" THEN << >>
    ELSE Take(response.results, max_results) \o AllInfoboxResults(response.infoboxes)

(***************************************************************************)
(* The state of main before it starts                                      *)
(***************************************************************************)
NumQueries == 5

SemaphoreValue == 5

NewSearch == [st |-> "new", res |-> << >>]

PipeStart(p) ==
    /\ pc = p
    /\ events = << >>
    /\ exit_code = 0
    /\ connect_calls = 0
    /\ close_calls = 0
    /\ emb_active = FALSE
    /\ search_results = [q \in 1..NumQueries |-> NewSearch]
    /\ all_urls = {}
    /\ urls_to_process = << >>
    /\ crawl_results = << >>
    /\ tasks = << >>
    /\ permits = SemaphoreValue
    /\ success_count = 0

ClientIdle ==
    /\ cresponse = Response("status", << >>, << >>)
    /\ cmax = 0
    /\ creturned = None

FilterIdle ==
    /\ fx = [success |-> FALSE, error |-> << >>, ec_card |-> None, confidence |-> None]
    /\ fpath = "none"
    /\ fpc = "idle"
    /\ fcrawl = [success |-> FALSE, markdown |-> None, error |-> << >>]
    /\ fhanded = << >>
    /\ fcard = None
    /\ fresult = None

HarnessIdle == FilterIdle /\ ClientIdle

(***************************************************************************)
(* The pipeline: main and the script's top-level handler                   *)
(***************************************************************************)
UrlCap == 10

MinContentLen == 100

UrlOf(i) == << "u" >> \o Str(i) \o << ".", "o", "r", "g" >>

UrlDenied == << "R", "e", "d", "d", "i", "t", ".", "c", "o", "m", "/", "r" >>

skip_patterns ==
    { << "r", "e", "d", "d", "i", "t", ".", "c", "o", "m" >>,
      << "q", "u", "o", "r", "a", ".", "c", "o", "m" >>,
      << "f", "o", "r", "u", "m" >>,
      << "d", "i", "s", "c", "u", "s", "s", "i", "o", "n" >>,
      << "b", "l", "o", "g" >>,
      << "l", "i", "n", "k", "e", "d", "i", "n", ".", "c", "o", "m" >>,
      << "f", "a", "c", "e", "b", "o", "o", "k", ".", "c", "o", "m" >>,
      << "t", "w", "i", "t", "t", "e", "r", ".", "c", "o", "m" >>,
      << "x", ".", "c", "o", "m" >>,
      << "i", "n", "s", "t", "a", "g", "r", "a", "m", ".", "c", "o", "m" >>,
      << "t", "i", "k", "t", "o", "k", ".", "c", "o", "m" >>,
      << "i", "n", "d", "e", "e", "d", ".", "c", "o", "m" >>,
      << "g", "l", "a", "s", "s", "d", "o", "o", "r", ".", "c", "o", "m" >>,
      << "z", "i", "p", "r", "e", "c", "r", "u", "i", "t", "e", "r", ".", "c", "o", "m" >>,
      << "y", "o", "u", "t", "u", "b", "e", ".", "c", "o", "m" >>,
      << "p", "i", "n", "t", "e", "r", "e", "s", "t", ".", "c", "o", "m" >> }

Whitespace == { " ", "\t", "\n" }

RECURSIVE LStrip(_, _)
LStrip(s, chars) ==
    IF s # << >> /\ Head(s) \in chars THEN LStrip(Tail(s), chars) ELSE s

RECURSIVE RStrip(_, _)
RStrip(s, chars) ==
    IF s # << >> /\ s[Len(s)] \in chars THEN RStrip(SubSeq(s, 1, Len(s) - 1), chars) ELSE s

\* str.strip(chars)
Strip(s, chars) == RStrip(LStrip(s, chars), chars)

\* db_url as main holds it after lines 106-108 (None or a text)
CleanDbUrl(env) ==
    IF env = None \/ env[1] = << >> THEN env
    ELSE Some(Strip(Strip(Strip(env[1], Whitespace), { "\"" }), { "'" }))

\* if not db_url
DbUrlMissing(env) == CleanDbUrl(env) = None \/ CleanDbUrl(env)[1] = << >>

\* the values of DATABASE_URL the model starts from
DbEnvValues ==
    { None, Some(<< >>), Some(<< " ", "\"", "\"", " " >>),
      Some(<< " ", "'", "p", "g", "'", "\n" >>) }

\* emit_event: one JSON line.  task is not part of the line: it records which
\* entry of results the line was written for (0 for every other line).
Event(type, url, text, count, card, task) ==
    [type |-> type, url |-> url, text |-> text, count |-> count, card |-> card, task |-> task]

PlainEvent(type, text) == Event(type, << >>, text, 0, None, 0)

\* the top-level handler: except Exception as e: print the error line, sys.exit(1)
HandlerCatches(msg) ==
    /\ events' = Append(events, PlainEvent("error", msg))
    /\ exit_code' = 1
    /\ pc' = "exited"

\* main up to its first await: the plan line, DATABASE_URL, the collaborators
\* and the call of sync.connect()
Start(messages) ==
    /\ pc = "start"
    /\ LET planned == Append(events, PlainEvent("plan", << "Analyzing request: " >>))
       IN  IF DbUrlMissing(db_env)
               THEN /\ events' = Append(planned, PlainEvent("error", << "DATABASE_URL not found" >>))
                    /\ pc' = "exited"
                    /\ UNCHANGED << exit_code, connect_calls >>
               ELSE \/ /\ events' = planned
                       /\ pc' = "connecting"
                       /\ connect_calls' = connect_calls + 1
                       /\ UNCHANGED exit_code
                    \/ \* get_settings, a client getter or PostgresSync raised
                       /\ \E msg \in messages :
                              /\ events' = Append(planned, PlainEvent("error", msg))
                              /\ exit_code' = 1
                              /\ pc' = "exited"
                       /\ UNCHANGED connect_calls
    /\ UNCHANGED << db_env, close_calls, emb_active, search_results, all_urls,
                    urls_to_process, crawl_results, tasks, permits, success_count >>
    /\ UNCHANGED harnessVars

\* sync.connect() returned: embeddings set up, the second plan line, the five
\* do_search tasks created and gathered
ConnectReturns ==
    /\ pc = "connecting"
    /\ \E use_embeddings \in BOOLEAN, initialised \in BOOLEAN :
           emb_active' = (use_embeddings /\ initialised)
    /\ events' = Append(events,
                        PlainEvent("plan", << "Generating targeted high school search strategies..." >>))
    /\ pc' = "searching"
    /\ UNCHANGED << db_env, exit_code, connect_calls, close_calls, search_results, all_urls,
                    urls_to_process, crawl_results, tasks, permits, success_count >>
    /\ UNCHANGED harnessVars

ConnectRaises(messages) ==
    /\ pc = "connecting"
    /\ \E msg \in messages : HandlerCatches(msg)
    /\ UNCHANGED << db_env, connect_calls, close_calls, emb_active, search_results, all_urls,
                    urls_to_process, crawl_results, tasks, permits, success_count >>
    /\ UNCHANGED harnessVars

\* do_search(q) runs to its await: the search line, then search_client.search
SearchStart(q) ==
    /\ pc = "searching"
    /\ search_results[q].st = "new"
    /\ \A p \in 1..(q - 1) : search_results[p].st # "new"
    /\ events' = Append(events, Event("search", << >>, << >>, q, None, 0))
    /\ search_results' = [search_results EXCEPT ![q].st = "running"]
    /\ UNCHANGED << pc, db_env, exit_code, connect_calls, close_calls, emb_active, all_urls,
                    urls_to_process, crawl_results, tasks, permits, success_count >>
    /\ UNCHANGED harnessVars

\* search_client.search returned its list
SearchReturns(q, answers) ==
    /\ pc = "searching"
    /\ search_results[q].st = "running"
    /\ \E res \in answers : search_results' = [search_results EXCEPT ![q] = [st |-> "done", res |-> res]]
    /\ UNCHANGED << pc, db_env, events, exit_code, connect_calls, close_calls, emb_active,
                    all_urls, urls_to_process, crawl_results, tasks, permits, success_count >>
    /\ UNCHANGED harnessVars

\* variant: the exception leaves do_search and ends the run in the top-level handler
SearchRaisesEscapes(q) ==
    /\ pc = "searching"
    /\ search_results[q].st = "running"
    /\ HandlerCatches(MsgBoom)
    /\ UNCHANGED << db_env, connect_calls, close_calls, emb_active, search_results, all_urls,
                    urls_to_process, crawl_results, tasks, permits, success_count >>
    /\ UNCHANGED harnessVars

\* search_client.search raised: do_search writes to stderr and returns []
SearchRaises(q) ==
    /\ pc = "searching"
    /\ search_results[q].st = "running"
    /\ search_results' = [search_results EXCEPT ![q] = [st |-> "failed", res |-> << >>]]
    /\ UNCHANGED << pc, db_env, events, exit_code, connect_calls, close_calls, emb_active,
                    all_urls, urls_to_process, crawl_results, tasks, permits, success_count >>
    /\ UNCHANGED harnessVars

RECURSIVE Flatten(_)
\* the results in the order the two nested for loops visit them
Flatten(lists) == IF lists = << >> THEN << >> ELSE Head(lists) \o Flatten(Tail(lists))

\* variant: the fragments compared without lower-casing the URL
DeniedCaseSensitive(url) == \E skip \in skip_patterns : Contains(url, skip)

Denied(url) == \E skip \in skip_patterns : Contains(Lower(url), skip)

\* variant: no URL counts as already collected
AlreadyFoundNever(url, seen) == FALSE

\* result.url not in all_urls, negated
AlreadyFound(url, seen) == url \in seen

RECURSIVE Discover(_, _)
\* the collection loop: [seen |-> all_urls, found |-> the found lines written]
Discover(results, acc) ==
    IF results = << >> THEN acc
    ELSE LET result == Head(results)
             source == IF result.title = << >> THEN << "Web Result" >> ELSE result.title
         IN  IF Denied(result.url) \/ AlreadyFound(result.url, acc.seen)
                 THEN Discover(Tail(results), acc)
                 ELSE Discover(Tail(results),
                               [seen |-> acc.seen \cup { result.url },
                                found |-> Append(acc.found,
                                                 Event("found", result.url, source, 0, None, 0))])

\* the orders in which list(all_urls) can enumerate the set
Orderings(S) ==
    { f \in [1..Cardinality(S) -> S] : \A i, j \in 1..Cardinality(S) : i # j => f[i] # f[j] }

\* largest set whose every enumeration order the model explores
PermuteLimit == 3

Rotations(seq) ==
    { [i \in 1..Len(seq) |-> seq[((i + r - 1) % Len(seq)) + 1]] : r \in 0..(Len(seq) - 1) }

Reverse(seq) == [i \in 1..Len(seq) |-> seq[Len(seq) + 1 - i]]

\* list(all_urls): a set of str enumerates in hash order, which differs from run
\* to run.  Up to PermuteLimit elements every order is explored; above it the
\* insertion order, its rotations and its reverse stand for the possible orders.
ListOfSet(S, inserted) ==
    IF Cardinality(S) <= PermuteLimit THEN Orderings(S)
    ELSE Rotations(inserted) \cup { Reverse(inserted) }

AnalyzingEvents(urls) == [i \in 1..Len(urls) |-> Event("analyzing", urls[i], << >>, 0, None, 0)]

\* do_search(q) has returned its list
Gathered(q) == search_results[q].st \in { "done", "failed" }

\* search_results once main no longer reads it
Collected == [q \in 1..NumQueries |-> [st |-> "collected", res |-> << >>]]

\* all searches gathered: the collection loop, urls_to_process, the plan and
\* analyzing lines, and the call of crawler.crawl_batch
Collect ==
    /\ pc = "searching"
    /\ \A q \in 1..NumQueries : Gathered(q)
    /\ LET d == Discover(Flatten([q \in 1..NumQueries |-> search_results[q].res]),
                         [seen |-> all_urls, found |-> << >>])
       IN  /\ all_urls' = d.seen
           /\ \E order \in ListOfSet(d.seen, [i \in 1..Len(d.found) |-> d.found[i].url]) :
                  /\ urls_to_process' = Take(order, UrlCap)
                  /\ events' = events \o d.found
                                 \o << Event("plan", << >>,
                                             << "Found ", "sources. Analyzing ", "in parallel..." >>,
                                             Cardinality(d.seen), None, 0) >>
                                 \o AnalyzingEvents(Take(order, UrlCap))
    /\ pc' = "crawling"
    /\ UNCHANGED << db_env, exit_code, connect_calls, close_calls, emb_active, search_results,
                    crawl_results, tasks, permits, success_count >>
    /\ UNCHANGED harnessVars

NewTask == [pc |-> "new", x |-> None, handed |-> << >>, emb |-> "none", result |-> None]

\* crawler.crawl_batch returned one outcome per URL: the semaphore and the
\* extract_and_save tasks are created and gathered.  The search result lists are
\* not read after the collection loop and the model drops them here.
CrawlBatchReturns(answers) ==
    /\ pc = "crawling"
    /\ \E outcome \in [1..Len(urls_to_process) -> answers] :
           crawl_results' = [i \in 1..Len(urls_to_process) |->
                                [url |-> urls_to_process[i], success |-> outcome[i].success,
                                 markdown |-> outcome[i].markdown, error |-> outcome[i].error]]
    /\ tasks' = [i \in 1..Len(urls_to_process) |-> NewTask]
    /\ permits' = SemaphoreValue
    /\ search_results' = Collected
    /\ pc' = "extracting"
    /\ UNCHANGED << db_env, events, exit_code, connect_calls, close_calls, emb_active,
                    all_urls, urls_to_process, success_count >>
    /\ UNCHANGED harnessVars

CrawlBatchRaises(messages) ==
    /\ pc = "crawling"
    /\ \E msg \in messages : HandlerCatches(msg)
    /\ search_results' = Collected
    /\ UNCHANGED << db_env, connect_calls, close_calls, emb_active, all_urls,
                    urls_to_process, crawl_results, tasks, permits, success_count >>
    /\ UNCHANGED harnessVars

(***************************************************************************)
(* extract_and_save(crawl_results[i]), one task per crawl outcome          *)
(***************************************************************************)
\* len(crawl_result.markdown or '')
ContentLen(cr) == IF cr.markdown = None THEN 0 ELSE cr.markdown[1]

\* variant: a content of exactly the minimum length counts as too short
TooShortInclusive(content_len) == content_len <= MinContentLen

TooShort(content_len) == content_len < MinContentLen

Finish(i, result) == [tasks EXCEPT ![i].pc = "done", ![i].result = Some(result)]

\* variant: the semaphore never reports itself locked
LockedNever == FALSE

\* asyncio.Semaphore: no permit is free
Locked == permits = 0

\* the task's first step: the crawl checks, then async with extraction_semaphore.
\* asyncio starts the gathered tasks in argument order.
TaskStart(i) ==
    /\ pc = "extracting"
    /\ tasks[i].pc = "new"
    /\ \A j \in 1..(i - 1) : tasks[j].pc # "new"
    /\ LET cr == crawl_results[i]
       IN  IF ~cr.success
               THEN /\ tasks' = Finish(i, ErrorResult(<< "Crawl failed: " >> \o cr.error))
                    /\ UNCHANGED permits
           ELSE IF TooShort(ContentLen(cr))
               THEN /\ tasks' = Finish(i, ErrorResult(<< "Content too short: " >>
                                                       \o Str(ContentLen(cr)) \o << " chars" >>))
                    /\ UNCHANGED permits
           ELSE IF ~Locked
               THEN /\ permits' = permits - 1
                    /\ tasks' = [tasks EXCEPT ![i].pc = "extracting"]
               ELSE /\ tasks' = [tasks EXCEPT ![i].pc = "waiting"]
                    /\ UNCHANGED permits
    /\ UNCHANGED << pc, db_env, events, exit_code, connect_calls, close_calls, emb_active,
                    search_results, all_urls, urls_to_process, crawl_results, success_count >>
    /\ UNCHANGED harnessVars

\* a task blocked in the semaphore's acquire gets a permit and calls extractor.extract
TaskAcquire(i) ==
    /\ pc = "extracting"
    /\ tasks[i].pc = "waiting"
    /\ ~Locked
    /\ permits' = permits - 1
    /\ tasks' = [tasks EXCEPT ![i].pc = "extracting"]
    /\ UNCHANGED << pc, db_env, events, exit_code, connect_calls, close_calls, emb_active,
                    search_results, all_urls, urls_to_process, crawl_results, success_count >>
    /\ UNCHANGED harnessVars

\* variant: leaving the async with block gives no permit back
ReleaseLeaks == permits

\* leaving the async with block
Release == permits + 1

\* extractor.extract returned: the acceptance rules, then either a rejection
\* (return, releasing the semaphore) or the call of sync.upsert_opportunity(ec)
ExtractReturns(i, answers) ==
    /\ pc = "extracting"
    /\ tasks[i].pc = "extracting"
    /\ \E x \in answers :
           LET d == DecideBatch(x)
           IN  IF d.accept
                   THEN /\ tasks' = [tasks EXCEPT ![i].pc = "upserting", ![i].x = Some(x),
                                                  ![i].handed = Append(@, d.ec[1])]
                        /\ UNCHANGED permits
                   ELSE /\ tasks' = [Finish(i, ErrorResult(d.error)) EXCEPT ![i].x = Some(x)]
                        /\ permits' = Release
    /\ UNCHANGED << pc, db_env, events, exit_code, connect_calls, close_calls, emb_active,
                    search_results, all_urls, urls_to_process, crawl_results, success_count >>
    /\ UNCHANGED harnessVars

\* variant: the exception leaves the task and ends the run in the top-level handler
ExtractRaisesEscapes(i, messages) ==
    /\ pc = "extracting"
    /\ tasks[i].pc = "extracting"
    /\ \E msg \in messages : HandlerCatches(msg)
    /\ UNCHANGED << db_env, connect_calls, close_calls, emb_active, search_results, all_urls,
                    urls_to_process, crawl_results, tasks, permits, success_count >>
    /\ UNCHANGED harnessVars

\* extractor.extract raised: except Exception, releasing the semaphore
ExtractRaises(i, messages) ==
    /\ pc = "extracting"
    /\ tasks[i].pc = "extracting"
    /\ \E msg \in messages : tasks' = Finish(i, ExceptionResult(msg))
    /\ permits' = Release
    /\ UNCHANGED << pc, db_env, events, exit_code, connect_calls, close_calls, emb_active,
                    search_results, all_urls, urls_to_process, crawl_results, success_count >>
    /\ UNCHANGED harnessVars

\* what the embedding block can do: nothing when disabled, else index the record
\* or fail in generate_for_indexing or in add_ec_with_embedding (swallowed)
EmbeddingOutcomes(active) ==
    IF active THEN { "indexed", "generate_failed", "add_failed" } ELSE { "none" }

\* variant: an exception of the embedding block reaches the outer except clause
UpsertReturnsEmbeddingEscapes(i) ==
    /\ pc = "extracting"
    /\ tasks[i].pc = "upserting"
    /\ \E emb \in EmbeddingOutcomes(emb_active) :
           tasks' = [Finish(i, IF emb \in { "generate_failed", "add_failed" }
                                  THEN ExceptionResult(MsgBoom)
                                  ELSE SuccessResult(tasks[i].handed[Len(tasks[i].handed)]))
                        EXCEPT ![i].emb = emb]
    /\ permits' = Release
    /\ UNCHANGED << pc, db_env, events, exit_code, connect_calls, close_calls, emb_active,
                    search_results, all_urls, urls_to_process, crawl_results, success_count >>
    /\ UNCHANGED harnessVars

\* sync.upsert_opportunity returned: the embedding block, then the success dict
UpsertReturns(i) ==
    /\ pc = "extracting"
    /\ tasks[i].pc = "upserting"
    /\ \E emb \in EmbeddingOutcomes(emb_active) :
           tasks' = [Finish(i, SuccessResult(tasks[i].handed[Len(tasks[i].handed)]))
                        EXCEPT ![i].emb = emb]
    /\ permits' = Release
    /\ UNCHANGED << pc, db_env, events, exit_code, connect_calls, close_calls, emb_active,
                    search_results, all_urls, urls_to_process, crawl_results, success_count >>
    /\ UNCHANGED harnessVars

\* sync.upsert_opportunity raised: except Exception, releasing the semaphore
UpsertRaises(i, messages) ==
    /\ pc = "extracting"
    /\ tasks[i].pc = "upserting"
    /\ \E msg \in messages : tasks' = Finish(i, ExceptionResult(msg))
    /\ permits' = Release
    /\ UNCHANGED << pc, db_env, events, exit_code, connect_calls, close_calls, emb_active,
                    search_results, all_urls, urls_to_process, crawl_results, success_count >>
    /\ UNCHANGED harnessVars

(***************************************************************************)
(* Reporting and shutdown                                                  *)
(***************************************************************************)
\* result.get("error") is truthy
HasError(result) == result.error # << >>

RECURSIVE ReportEvents(_, _)
\* the lines the reporting loop writes for results[i..]
ReportEvents(results, i) ==
    IF i > Len(results) THEN << >>
    ELSE LET result == results[i].result[1]
             line == IF result.success
                         THEN << Event("extracted", << >>, << >>, 0, result.card, i) >>
                     ELSE IF HasError(result)
                         THEN << Event("error", crawl_results[i].url, result.error, 0, None, i) >>
                     ELSE << >>
         IN  line \o ReportEvents(results, i + 1)

SuccessCount(results) == Cardinality({ i \in 1..Len(results) : results[i].result[1].success })

\* gather returned: the reporting loop, the complete line, the call of sync.close()
Report ==
    /\ pc = "extracting"
    /\ \A i \in 1..Len(tasks) : tasks[i].pc = "done"
    /\ success_count' = SuccessCount(tasks)
    /\ events' = Append(events \o ReportEvents(tasks, 1),
                        Event("complete", << >>, << >>, SuccessCount(tasks), None, 0))
    /\ close_calls' = close_calls + 1
    /\ pc' = "closing"
    /\ UNCHANGED << db_env, exit_code, connect_calls, emb_active, search_results, all_urls,
                    urls_to_process, crawl_results, tasks, permits >>
    /\ UNCHANGED harnessVars

\* sync.close() returned: main returns and the script ends
CloseReturns ==
    /\ pc = "closing"
    /\ pc' = "exited"
    /\ UNCHANGED << db_env, events, exit_code, connect_calls, close_calls, emb_active,
                    search_results, all_urls, urls_to_process, crawl_results, tasks, permits,
                    success_count >>
    /\ UNCHANGED harnessVars

CloseRaises(messages) ==
    /\ pc = "closing"
    /\ \E msg \in messages : HandlerCatches(msg)
    /\ UNCHANGED << db_env, connect_calls, close_calls, emb_active, search_results, all_urls,
                    urls_to_process, crawl_results, tasks, permits, success_count >>
    /\ UNCHANGED harnessVars

(***************************************************************************)
(* Inputs of a whole run                                                   *)
(***************************************************************************)
Messages == { << >>, MsgBoom }

\* what the backend answers one query of a run: a failure of each kind, no
\* result, one URL (untitled), one URL twice, or a denylisted URL and a second
\* URL with an infobox linking to the first
BackendResponses ==
    { Response("status", << >>, << >>),
      Response("transport", << >>, << >>),
      Response("malformed", << >>, << >>),
      Response("ok", << >>, << >>),
      Response("ok", << SearchHit(UrlOf(1), << >>) >>, << >>),
      Response("ok", << SearchHit(UrlOf(2), << >>) >>, << >>),
      Response("ok", << SearchHit(UrlOf(1), << "T" >>), SearchHit(UrlOf(1), << >>) >>, << >>),
      Response("ok", << SearchHit(UrlDenied, << "T" >>), SearchHit(UrlOf(2), << "T" >>) >>,
               << Infobox("Wikipedia", << SearchHit(UrlOf(1), << "T" >>) >>) >>) }

\* what search_client.search(search_query, max_results=10) can return
SearchAnswers == { ClientSearch(response, SearchMaxResults) : response \in BackendResponses }

CrawlAnswers ==
    { [success |-> FALSE, markdown |-> None, error |-> MsgBoom],
      [success |-> TRUE, markdown |-> None, error |-> << >>],
      [success |-> TRUE, markdown |-> Some(40), error |-> << >>],
      [success |-> TRUE, markdown |-> Some(100), error |-> << >>] }

GoodCard ==
    [title |-> TitleClean, organization |-> Some("MIT"), is_expired |-> FALSE,
     timing_type |-> "ANNUAL", recheck_days |-> 14]

GoodExtraction ==
    [success |-> TRUE, error |-> MsgBoom, ec_card |-> Some(GoodCard), confidence |-> Some(40)]

ExtractionOf(card) == [GoodExtraction EXCEPT !.ec_card = Some(card)]

\* one extraction outcome for every branch of the acceptance rules
Extractions ==
    { GoodExtraction,
      [GoodExtraction EXCEPT !.success = FALSE],
      [GoodExtraction EXCEPT !.ec_card = None],
      [GoodExtraction EXCEPT !.confidence = Some(39)],
      ExtractionOf([GoodCard EXCEPT !.organization = Some("Unknown")]),
      ExtractionOf([GoodCard EXCEPT !.title = TitleTop]),
      ExtractionOf([GoodCard EXCEPT !.is_expired = TRUE, !.timing_type = "ONE_TIME"]),
      ExtractionOf([GoodCard EXCEPT !.is_expired = TRUE, !.timing_type = "SEASONAL"]) }

Init ==
    /\ PipeStart("start")
    /\ db_env \in DbEnvValues
    /\ HarnessIdle

Next ==
    \/ Start(Messages)
    \/ ConnectReturns
    \/ ConnectRaises(Messages)
    \/ \E q \in 1..NumQueries : SearchStart(q)
    \/ \E q \in 1..NumQueries : SearchReturns(q, SearchAnswers)
    \/ \E q \in 1..NumQueries : SearchRaises(q)
    \/ Collect
    \/ CrawlBatchReturns(CrawlAnswers)
    \/ CrawlBatchRaises(Messages)
    \/ \E i \in 1..Len(tasks) : TaskStart(i)
    \/ \E i \in 1..Len(tasks) : ExtractReturns(i, Extractions)
    \/ \E i \in 1..Len(tasks) : ExtractRaises(i, Messages)
    \/ \E i \in 1..Len(tasks) : UpsertReturns(i)
    \/ \E i \in 1..Len(tasks) : UpsertRaises(i, Messages)
    \/ Report
    \/ CloseReturns
    \/ CloseRaises(Messages)

\* A whole run.  The searches of a run return at most two crawlable URLs, fewer
\* than the semaphore has permits, so no task of such a run ever waits for the
\* semaphore: TaskAcquire is a step of SpecGate below, which starts the
\* extraction stage with more ready crawl outcomes than permits.
Spec == Init /\ [][Next]_vars

(***************************************************************************)
(* The extraction stage on its own, with more ready crawl outcomes than    *)
(* the semaphore has permits                                               *)
(***************************************************************************)
\* largest number of crawl outcomes ready at once
MaxReady == 6

ReadyUrls(k) == [i \in 1..k |-> UrlOf(i)]

\* the lines main has written when crawl_batch returns k outcomes that five
\* searches found in the order u1 .. uk
LinesBeforeExtraction(k) ==
    << PlainEvent("plan", << "Analyzing request: " >>),
       PlainEvent("plan", << "Generating targeted high school search strategies..." >>) >>
    \o [q \in 1..NumQueries |-> Event("search", << >>, << >>, q, None, 0)]
    \o [i \in 1..k |-> Event("found", UrlOf(i), << "Web Result" >>, 0, None, 0)]
    \o << Event("plan", << >>, << "Found ", "sources. Analyzing ", "in parallel..." >>, k, None, 0) >>
    \o AnalyzingEvents(ReadyUrls(k))

\* main at line 262: crawl_batch has returned k successful crawls of 100
\* characters, the semaphore is new and the k tasks are gathered
InitGate ==
    /\ \E k \in 0..MaxReady :
           /\ events = LinesBeforeExtraction(k)
           /\ all_urls = { UrlOf(i) : i \in 1..k }
           /\ urls_to_process = ReadyUrls(k)
           /\ crawl_results = [i \in 1..k |->
                                  [url |-> UrlOf(i), success |-> TRUE,
                                   markdown |-> Some(MinContentLen), error |-> << >>]]
           /\ tasks = [i \in 1..k |-> NewTask]
    /\ pc = "extracting"
    /\ db_env = Some(<< "p", "g" >>)
    /\ exit_code = 0
    /\ connect_calls = 1
    /\ close_calls = 0
    /\ emb_active = FALSE
    /\ search_results = Collected
    /\ permits = SemaphoreValue
    /\ success_count = 0
    /\ HarnessIdle

\* the extraction agent accepts or reports a low confidence
GateExtractions == { GoodExtraction, [GoodExtraction EXCEPT !.confidence = Some(39)] }

GateMessages == { MsgBoom }

NextGate ==
    \/ \E i \in 1..Len(tasks) : TaskStart(i)
    \/ \E i \in 1..Len(tasks) : TaskAcquire(i)
    \/ \E i \in 1..Len(tasks) : ExtractReturns(i, GateExtractions)
    \/ \E i \in 1..Len(tasks) : ExtractRaises(i, GateMessages)
    \/ \E i \in 1..Len(tasks) : UpsertReturns(i)
    \/ \E i \in 1..Len(tasks) : UpsertRaises(i, GateMessages)
    \/ Report
    \/ CloseReturns
    \/ CloseRaises(GateMessages)

SpecGate == InitGate /\ [][NextGate]_vars

\* the event loop runs a task that can run: a new task takes its first step and a
\* task woken by a release takes the permit
GateScheduling == \E i \in 1..Len(tasks) : TaskStart(i) \/ TaskAcquire(i)

\* every extractor.extract and sync.upsert_opportunity call returns or raises
GateCallsEnd ==
    \E i \in 1..Len(tasks) :
        \/ ExtractReturns(i, GateExtractions)
        \/ ExtractRaises(i, GateMessages)
        \/ UpsertReturns(i)
        \/ UpsertRaises(i, GateMessages)

\* the extraction stage with the event loop running and every call ending; once
\* every gathered task is done, gather returns and main goes on
SpecGateFair ==
    /\ SpecGate
    /\ WF_vars(GateScheduling)
    /\ WF_vars(GateCallsEnd)
    /\ WF_vars(Report)

(***************************************************************************)
(* The collection loop on its own, on search results that overlap, carry   *)
(* denylisted URLs and exceed the cap; every crawl then fails              *)
(***************************************************************************)
\* largest number of URLs the first search returns
MaxFound == 11

UrlDeniedPath == << "u", "9", ".", "o", "r", "g", "/", "F", "o", "r", "u", "m" >>

Hits(k) == [i \in 1..k |-> SearchHit(UrlOf(i), << >>)]

\* what the second and third search return: a denylisted URL first, in the
\* middle or last, next to URLs the first search may return too
OverlapAnswers ==
    { << >>,
      << SearchHit(UrlDenied, << "T" >>), SearchHit(UrlOf(1), << "T" >>), SearchHit(UrlOf(1), << >>) >>,
      << SearchHit(UrlOf(2), << >>), SearchHit(UrlDeniedPath, << >>), SearchHit(UrlOf(12), << >>) >>,
      << SearchHit(UrlOf(3), << "T" >>), SearchHit(UrlDeniedPath, << "T" >>) >> }

\* the lines main has written when the five searches have been started
LinesBeforeCollection ==
    << PlainEvent("plan", << "Analyzing request: " >>),
       PlainEvent("plan", << "Generating targeted high school search strategies..." >>) >>
    \o [q \in 1..NumQueries |-> Event("search", << >>, << >>, q, None, 0)]

\* main at line 161: the five searches have returned, the fourth after an
\* exception
InitCollect ==
    /\ pc = "searching"
    /\ events = LinesBeforeCollection
    /\ \E k \in 0..MaxFound, second \in OverlapAnswers, third \in OverlapAnswers :
           search_results = << [st |-> "done", res |-> Hits(k)],
                               [st |-> "done", res |-> second],
                               [st |-> "done", res |-> third],
                               [st |-> "failed", res |-> << >>],
                               [st |-> "done", res |-> << >>] >>
    /\ db_env = Some(<< "p", "g" >>)
    /\ exit_code = 0
    /\ connect_calls = 1
    /\ close_calls = 0
    /\ emb_active = FALSE
    /\ all_urls = {}
    /\ urls_to_process = << >>
    /\ crawl_results = << >>
    /\ tasks = << >>
    /\ permits = SemaphoreValue
    /\ success_count = 0
    /\ HarnessIdle

FailedCrawl == { [success |-> FALSE, markdown |-> None, error |-> MsgBoom] }

NextCollect ==
    \/ Collect
    \/ CrawlBatchReturns(FailedCrawl)
    \/ CrawlBatchRaises(GateMessages)
    \/ \E i \in 1..Len(tasks) : TaskStart(i)
    \/ Report
    \/ CloseReturns
    \/ CloseRaises(GateMessages)

SpecCollect == InitCollect /\ [][NextCollect]_vars

(***************************************************************************)
(* The start of main on more DATABASE_URL values: runs whose searches all  *)
(* fail                                                                    *)
(***************************************************************************)
\* DATABASE_URL values made of quotes and whitespace only, next to the values above
QuotedEnvValues ==
    { Some(<< "'", "\"", "\"", "'" >>),
      Some(<< "\"", " ", "\"" >>),
      Some(<< "\"", "'", "'", "\"" >>),
      Some(<< "\t", "'", "'", " " >>) }

InitConfig ==
    /\ PipeStart("start")
    /\ db_env \in DbEnvValues \cup QuotedEnvValues
    /\ HarnessIdle

NextConfig ==
    \/ Start(Messages)
    \/ ConnectReturns
    \/ ConnectRaises(Messages)
    \/ \E q \in 1..NumQueries : SearchStart(q)
    \/ \E q \in 1..NumQueries : SearchRaises(q)
    \/ Collect
    \/ CrawlBatchReturns(FailedCrawl)
    \/ CrawlBatchRaises(Messages)
    \/ Report
    \/ CloseReturns
    \/ CloseRaises(Messages)

SpecConfig == InitConfig /\ [][NextConfig]_vars

(***************************************************************************)
(* One call of SearXNGClient.search                                        *)
(***************************************************************************)
\* largest max_results argument
MaxMaxResults == 3

\* largest number of regular results, and of urls of one infobox, in a response
MaxBackendResults == 4

Links(k) == [i \in 1..k |-> SearchHit(<< "w" >> \o Str(i) \o << ".", "o", "r", "g" >>, << "Link" >>)]

InfoboxLists ==
    { << >>,
      << Infobox("Wikipedia", Links(1)) >>,
      << Infobox("Wikipedia", Links(MaxBackendResults)) >>,
      << Infobox("Wikipedia", Links(2)), Infobox("Wikidata", Links(MaxBackendResults)) >> }

ClientResponses ==
    { Response(kind, << >>, << >>) : kind \in { "status", "transport", "malformed" } }
    \cup { Response("ok", Hits(k), boxes) : k \in 0..MaxBackendResults, boxes \in InfoboxLists }

InitSearch ==
    /\ PipeStart("idle")
    /\ db_env = None
    /\ FilterIdle
    /\ cresponse \in ClientResponses
    /\ cmax \in 0..MaxMaxResults
    /\ creturned = None

\* search(query, max_results=cmax) runs against the response and returns
C_SearchReturns ==
    /\ creturned = None
    /\ creturned' = Some(ClientSearch(cresponse, cmax))
    /\ UNCHANGED << cresponse, cmax >>
    /\ UNCHANGED << pipeVars, filterVars >>

NextSearch == C_SearchReturns

SpecSearch == InitSearch /\ [][NextSearch]_vars

(***************************************************************************)
(* One URL through process_url, and one crawl outcome through              *)
(* extract_and_save with the embedding path disabled                       *)
(***************************************************************************)
DecideOn(path, x) == IF path = "process_url" THEN DecideSingle(x) ELSE DecideBatch(x)

InitFilter ==
    /\ PipeStart("idle")
    /\ db_env = None
    /\ fx \in AllExtractions
    /\ fpath \in { "process_url", "extract_and_save" }
    /\ fcrawl \in CrawlAnswers
    /\ fpc = "crawl"
    /\ fhanded = << >>
    /\ fcard = fx.ec_card
    /\ fresult = None
    /\ ClientIdle

\* the crawl outcome is in hand (crawler.crawl returned it, or it is the argument
\* of extract_and_save): the two crawl checks, then the call of extractor.extract
F_CrawlReturns ==
    /\ fpc = "crawl"
    /\ LET crawl_result == fcrawl
       IN  IF ~crawl_result.success
               THEN /\ fresult' = Some(ErrorResult(<< "Crawl failed: " >> \o crawl_result.error))
                    /\ fpc' = "failed"
           ELSE IF TooShort(ContentLen(crawl_result))
               THEN /\ fresult' = Some(ErrorResult(<< "Content too short: " >>
                                                   \o Str(ContentLen(crawl_result)) \o << " chars" >>))
                    /\ fpc' = "failed"
               ELSE /\ fresult' = fresult
                    /\ fpc' = "extract"
    /\ UNCHANGED << fx, fpath, fcrawl, fhanded, fcard >>
    /\ UNCHANGED pipeVars
    /\ UNCHANGED clientVars

\* process_url: crawler.crawl raised inside the try block
F_CrawlRaises ==
    /\ fpc = "crawl"
    /\ fpath = "process_url"
    /\ \E msg \in ExceptionMessages : fresult' = Some(ExceptionResult(msg))
    /\ fpc' = "failed"
    /\ UNCHANGED << fx, fpath, fcrawl, fhanded, fcard >>
    /\ UNCHANGED pipeVars
    /\ UNCHANGED clientVars

\* extractor.extract returned fx: the acceptance rules, then the upsert call
F_Decide ==
    /\ fpc = "extract"
    /\ LET d == DecideOn(fpath, fx)
       IN  IF d.accept
               THEN /\ fhanded' = Append(fhanded, d.ec[1])
                    /\ fpc' = "upsert"
                    /\ fresult' = fresult
               ELSE /\ fresult' = Some(ErrorResult(d.error))
                    /\ fpc' = "returned"
                    /\ fhanded' = fhanded
    /\ fcard' = DecideOn(fpath, fx).ec
    /\ UNCHANGED << fx, fpath, fcrawl >>
    /\ UNCHANGED pipeVars
    /\ UNCHANGED clientVars

\* extractor.extract raised
F_ExtractRaises ==
    /\ fpc = "extract"
    /\ \E msg \in ExceptionMessages : fresult' = Some(ExceptionResult(msg))
    /\ fpc' = "failed"
    /\ UNCHANGED << fx, fpath, fcrawl, fhanded, fcard >>
    /\ UNCHANGED pipeVars
    /\ UNCHANGED clientVars

\* sync.upsert_opportunity(ec) returned
F_UpsertReturns ==
    /\ fpc = "upsert"
    /\ fresult' = Some(SuccessResult(fhanded[Len(fhanded)]))
    /\ fpc' = "returned"
    /\ UNCHANGED << fx, fpath, fcrawl, fhanded, fcard >>
    /\ UNCHANGED pipeVars
    /\ UNCHANGED clientVars

\* sync.upsert_opportunity(ec) raised
F_UpsertRaises ==
    /\ fpc = "upsert"
    /\ \E msg \in ExceptionMessages : fresult' = Some(ExceptionResult(msg))
    /\ fpc' = "returned"
    /\ UNCHANGED << fx, fpath, fcrawl, fhanded, fcard >>
    /\ UNCHANGED pipeVars
    /\ UNCHANGED clientVars

NextFilter ==
    \/ F_CrawlReturns
    \/ F_CrawlRaises
    \/ F_Decide
    \/ F_ExtractRaises
    \/ F_UpsertReturns
    \/ F_UpsertRaises

SpecFilter == InitFilter /\ [][NextFilter]_vars

(***************************************************************************)
(* Properties of the extraction gate (checked under SpecGate)              *)
(***************************************************************************)
TaskIds == 1..Len(tasks)

\* tasks awaiting extractor.extract
Extracting == { i \in TaskIds : tasks[i].pc = "extracting" }

\* tasks inside the async with block
InsideGate == { i \in TaskIds : tasks[i].pc \in { "extracting", "upserting" } }

Waiting == { i \in TaskIds : tasks[i].pc = "waiting" }

\* C1: at every instant at most 5 extractor.extract calls are in flight, whatever
\* the number of ready crawl outcomes: the tasks inside the gate and the free
\* permits always add up to 5, so a waiting task enters only after a release.
C1_AtMostFiveExtractions ==
    /\ Cardinality(Extracting) <= 5
    /\ permits \in 0..5
    /\ Cardinality(InsideGate) + permits = 5
    /\ Waiting # {} => Len(tasks) > 5

\* six crawl outcomes ready: five extractions in flight and the sixth task held at
\* the gate
C1_Witness ==
    /\ Len(tasks) = 6
    /\ Cardinality(Extracting) = 5
    /\ Waiting # {}
    /\ permits = 0

(***************************************************************************)
(* Properties of a whole run (checked under Spec)                          *)
(***************************************************************************)
EventsOfType(type) == { k \in 1..Len(events) : events[k].type = type }

RunEnded == pc = "exited"

\* the records accepted in the run: the results that report success
AcceptedCount == Cardinality({ i \in TaskIds : tasks[i].result # None /\ tasks[i].result[1].success })

\* C2: every run emits exactly one complete event, and its count is the number of
\* records accepted in the run.
C2_OneCompletePerRun ==
    RunEnded =>
        /\ Cardinality(EventsOfType("complete")) = 1
        /\ \A k \in EventsOfType("complete") : events[k].count = AcceptedCount

\* C3: no event is written after the complete event.
C3_CompleteIsLast ==
    \A k \in EventsOfType("complete") : k = Len(events)

ReportingReached == close_calls > 0

ResultEvents(i) ==
    { k \in 1..Len(events) : events[k].task = i /\ events[k].type \in { "error", "extracted" } }

\* C4: once the reporting step has run, every URL passed to the crawl stage has
\* exactly one result event: an extracted event if it was accepted and an error
\* event if it failed or was rejected.
C4_OneResultEventPerUrl ==
    ReportingReached =>
        \A i \in TaskIds :
            /\ Cardinality(ResultEvents(i)) = 1
            /\ \A k \in ResultEvents(i) :
                   events[k].type = (IF tasks[i].result[1].success THEN "extracted" ELSE "error")

(***************************************************************************)
(* Properties of the results and the progress of the extraction stage      *)
(* (checked under SpecGate and SpecGateFair)                               *)
(***************************************************************************)
\* C21: the extracted or error event of a URL is in the stream as soon as that
\* URL's task has finished, also while other URLs are still being extracted.
StillExtracted == { j \in TaskIds : tasks[j].pc \in { "waiting", "extracting", "upserting" } }

Reportable(i) ==
    /\ tasks[i].pc = "done"
    /\ tasks[i].result[1].success \/ HasError(tasks[i].result[1])

C21_ResultEventsInRealTime ==
    \A i \in TaskIds :
        (pc = "extracting" /\ Reportable(i) /\ StillExtracted # {}) => ResultEvents(i) # {}

AllTasksDone == \A i \in TaskIds : tasks[i].pc = "done"

\* C22: the tasks inside the gate and the free permits always add up to 5 (a
\* task leaving the gate by rejection, acceptance or caught exception gives its
\* permit back), and when every call ends, every run of up to MaxReady ready crawl
\* outcomes comes to the point where every task is done, all 5 permits are free
\* and the reporting step has run.
C22_GateNeverDeadlocks ==
    /\ [](Cardinality(InsideGate) + permits = SemaphoreValue)
    /\ <>(AllTasksDone /\ permits = SemaphoreValue /\ ReportingReached)

\* six tasks went through a gate of five permits and left it by each exit path:
\* a rejection, an acceptance and a caught exception; the permits are all free
\* and the results are reported
C22_Witness ==
    /\ Len(tasks) = SemaphoreValue + 1
    /\ AllTasksDone
    /\ permits = SemaphoreValue
    /\ ReportingReached
    /\ \E i \in TaskIds : tasks[i].result[1].success
    /\ \E i \in TaskIds : tasks[i].x # None /\ tasks[i].x[1].confidence = Some(39)
    /\ \E i \in TaskIds : tasks[i].x = None /\ tasks[i].result[1].error = MsgBoom

(***************************************************************************)
(* Properties of the search fan-out and the collection loop                *)
(***************************************************************************)
\* the hits the five searches returned, as (query, position) pairs
ReturnedAt ==
    UNION { { << q, i >> : i \in 1..Len(search_results[q].res) } : q \in 1..NumQueries }

HitUrl(qi) == search_results[qi[1]].res[qi[2]].url

ReturnedUrls == { HitUrl(qi) : qi \in ReturnedAt }

FoundEvents == { k \in 1..Len(events) : events[k].type = "found" }

FoundEventsOf(u) == { k \in FoundEvents : events[k].url = u }

Forwarded == { urls_to_process[i] : i \in 1..Len(urls_to_process) }

\* C11: the URL list passed to the crawl stage holds each URL at most once, and
\* when the collection loop has run exactly one found event exists for every
\* returned URL that is not denylisted, and none for any other URL.
C11_DedupAndOneFound ==
    /\ \A i, j \in 1..Len(urls_to_process) : urls_to_process[i] = urls_to_process[j] => i = j
    /\ \A k \in FoundEvents : Cardinality(FoundEventsOf(events[k].url)) = 1
    /\ Forwarded \subseteq { events[k].url : k \in FoundEvents }
    /\ pc = "crawling" =>
          /\ \A u \in ReturnedUrls : ~Denied(u) => Cardinality(FoundEventsOf(u)) = 1
          /\ \A k \in FoundEvents : events[k].url \in ReturnedUrls

\* the collection loop has run on results where one URL came from two queries and
\* twice from one of them, and two URLs are passed to the crawl stage
C11_Witness ==
    /\ pc = "crawling"
    /\ \E a, b \in ReturnedAt : a[1] # b[1] /\ HitUrl(a) = HitUrl(b)
    /\ \E a, b \in ReturnedAt : a[1] = b[1] /\ a[2] # b[2] /\ HitUrl(a) = HitUrl(b)
    /\ Len(urls_to_process) = 2

\* the URL holds a denylist fragment, compared case-insensitively
HasDenylistFragment(u) == \E fragment \in skip_patterns : Contains(Lower(u), fragment)

Discovered == [i \in 1..Cardinality(FoundEvents) |->
                  events[CHOOSE k \in FoundEvents :
                             Cardinality({ j \in FoundEvents : j <= k }) = i].url]

\* C13: at most 10 URLs are passed to the crawl stage, and when more than 10 were
\* discovered they are the first 10 in the order of their found events.
C13_FirstTenForwarded ==
    pc # "searching" =>
        /\ Len(urls_to_process) <= 10
        /\ Len(Discovered) > 10 => Forwarded = { Discovered[i] : i \in 1..10 }

\* C16: a failed search counts as no results and never ends the run: a backend
\* failure of any kind makes the client return the empty list, a query whose
\* client call raised holds the empty list, the run never ends inside the search
\* stage, and the collection loop that follows collects exactly the
\* non-denylisted URLs the other queries returned.
C16_SearchFailureIsolated ==
    /\ \A response \in BackendResponses :
           response.kind # "ok" => ClientSearch(response, 10) = << >>
    /\ \A q \in 1..NumQueries : search_results[q].st = "failed" => search_results[q].res = << >>
    /\ pc = "exited" => \A q \in 1..NumQueries : search_results[q].st \in { "new", "collected" }
    /\ pc = "crawling" => all_urls = { u \in ReturnedUrls : ~HasDenylistFragment(u) }

\* the first query failed, a later one returned a URL, and that URL was collected
\* and passed to the crawl stage
C16_Witness ==
    /\ pc = "crawling"
    /\ search_results[1].st = "failed"
    /\ \E q \in 2..NumQueries : search_results[q].st = "done" /\ search_results[q].res # << >>
    /\ Len(urls_to_process) >= 1

(***************************************************************************)
(* Properties of the extraction tasks within a whole run                   *)
(***************************************************************************)
\* the crawl of task i succeeded with fewer than 100 characters of markdown
ShortCrawl(i) ==
    /\ crawl_results[i].success
    /\ crawl_results[i].markdown = None \/ crawl_results[i].markdown[1] < 100

ActualLen(i) == IF crawl_results[i].markdown = None THEN 0 ELSE crawl_results[i].markdown[1]

TooShortMessage(i) == << "Content too short: " >> \o Str(ActualLen(i)) \o << " chars" >>

\* C14: a successful crawl with fewer than 100 characters never enters the gate,
\* never reaches extractor.extract or upsert, ends with the error
\* "Content too short: <n> chars" for its actual length n, and is reported by
\* exactly one error event carrying that text; a crawl of exactly 100 characters
\* is never rejected as too short.
C14_ShortContent ==
    /\ Cardinality(InsideGate) + permits = 5
    /\ \A i \in TaskIds :
           /\ ShortCrawl(i) =>
                 /\ tasks[i].pc \in { "new", "done" }
                 /\ tasks[i].x = None
                 /\ tasks[i].handed = << >>
                 /\ tasks[i].pc = "done" => tasks[i].result = Some(ErrorResult(TooShortMessage(i)))
                 /\ ReportingReached =>
                       /\ Cardinality(ResultEvents(i)) = 1
                       /\ \A k \in ResultEvents(i) :
                              /\ events[k].type = "error"
                              /\ events[k].url = crawl_results[i].url
                              /\ events[k].text = TooShortMessage(i)
           /\ (crawl_results[i].success /\ crawl_results[i].markdown = Some(100)) =>
                 /\ tasks[i].pc \in { "new", "extracting", "upserting", "done" }
                 /\ tasks[i].pc = "done" =>
                       \/ tasks[i].x # None
                       \/ tasks[i].result[1].error \in Messages

\* reported: a crawl of 40 characters rejected as too short and a crawl of 100
\* characters whose extraction was accepted
C14_Witness ==
    /\ pc = "closing"
    /\ \E i, j \in TaskIds :
           /\ crawl_results[i].markdown = Some(40)
           /\ \E k \in ResultEvents(i) :
                  events[k].text = << "Content too short: ", "4", "0", " chars" >>
           /\ crawl_results[j].markdown = Some(100)
           /\ tasks[j].x # None
           /\ tasks[j].result[1].success

\* the crawl of task i can be handed to extractor.extract
UsableCrawl(i) == crawl_results[i].success /\ ~ShortCrawl(i)

\* the results task i can end with, given its own crawl outcome and what its own
\* extractor.extract and upsert_opportunity calls did
OwnOutcomes(i) ==
    IF ~crawl_results[i].success
        THEN { ErrorResult(<< "Crawl failed: " >> \o crawl_results[i].error) }
    ELSE IF ShortCrawl(i) THEN { ErrorResult(TooShortMessage(i)) }
    ELSE IF tasks[i].x = None THEN { ExceptionResult(m) : m \in Messages }
    ELSE IF DecideBatch(tasks[i].x[1]).accept
        THEN { SuccessResult(DecideBatch(tasks[i].x[1]).ec[1]) } \cup { ExceptionResult(m) : m \in Messages }
    ELSE { ErrorResult(DecideBatch(tasks[i].x[1]).error) }

\* extractor.extract or upsert_opportunity raised in task i
Raised(i) ==
    /\ tasks[i].pc = "done"
    /\ UsableCrawl(i)
    /\ tasks[i].x = None \/ (DecideBatch(tasks[i].x[1]).accept /\ ~tasks[i].result[1].success)

EmbeddingFailed(i) == tasks[i].emb \in { "generate_failed", "add_failed" }

\* C17: an embedding call is made for a URL only when the embedding path is
\* active and only once its upsert has returned; whatever the embedding calls do,
\* the URL's result is the success result of the record handed to upsert; a URL
\* whose embedding call failed is reported by exactly one event, an extracted
\* event, and is counted by complete.
C17_EmbeddingNeverChangesOutcome ==
    /\ \A i \in TaskIds :
           /\ ~emb_active => tasks[i].emb = "none"
           /\ tasks[i].emb # "none" =>
                 /\ tasks[i].pc = "done"
                 /\ Len(tasks[i].handed) = 1
                 /\ tasks[i].result = Some(SuccessResult(tasks[i].handed[1]))
           /\ (ReportingReached /\ EmbeddingFailed(i)) =>
                 /\ Cardinality(ResultEvents(i)) = 1
                 /\ \A k \in ResultEvents(i) :
                        events[k].type = "extracted" /\ events[k].card = tasks[i].result[1].card
    /\ ReportingReached =>
          \E k \in EventsOfType("complete") :
              events[k].count >= Cardinality({ i \in TaskIds : EmbeddingFailed(i) })

\* reported: a URL whose generate_for_indexing call failed has its extracted event
\* and complete counts it
C17_Witness ==
    /\ pc = "closing"
    /\ emb_active
    /\ \E i \in TaskIds :
           /\ tasks[i].emb = "generate_failed"
           /\ \E k \in ResultEvents(i) : events[k].type = "extracted"
    /\ \E k \in EventsOfType("complete") : events[k].count = 1

(***************************************************************************)
(* Properties of the start and the end of a run                            *)
(***************************************************************************)
\* sync.connect() returned: main wrote its second plan line
ConnectReturned ==
    \E k \in 1..Len(events) :
        events[k].text = << "Generating targeted high school search strategies..." >>

\* C18: sync.connect() is called at most once and before any stage runs, and a
\* run whose connect call returned ends with sync.close() called exactly once,
\* also when a later call raised.
C18_ConnectOnceCloseOnce ==
    /\ connect_calls <= 1
    /\ close_calls <= connect_calls
    /\ (connect_calls = 0 \/ pc = "connecting") => \A q \in 1..NumQueries : search_results[q].st = "new"
    /\ (RunEnded /\ ConnectReturned) => close_calls = 1

\* DATABASE_URL is unset, or nothing is left of it once whitespace and quote
\* characters are stripped from both ends
NothingButQuotes == db_env = None \/ Strip(db_env[1], Whitespace \cup { "\"", "'" }) = << >>

\* C19: with DATABASE_URL missing, or empty after stripping whitespace and quote
\* characters, the run writes its first plan line and one error event and ends:
\* no connect call, no search, no crawl, no extraction task, no other event.
C19_MissingConfigAborts ==
    (NothingButQuotes /\ pc # "start") =>
        /\ pc = "exited"
        /\ connect_calls = 0
        /\ close_calls = 0
        /\ Cardinality(EventsOfType("error")) = 1
        /\ events[Len(events)].type = "error"
        /\ \A k \in 1..Len(events) : events[k].type \in { "plan", "error" }
        /\ \A q \in 1..NumQueries : search_results[q].st = "new"
        /\ crawl_results = << >> /\ tasks = << >>

(***************************************************************************)
(* Properties of SearXNGClient.search (checked under SpecSearch)           *)
(***************************************************************************)
\* C20: the list search returns holds at most max_results results, for every
\* backend response.
C20_AtMostMaxResults ==
    creturned # None => Len(creturned[1]) <= cmax

(***************************************************************************)
(* Properties of the acceptance rules (checked under SpecFilter)           *)
(***************************************************************************)
OtherPath(path) == IF path = "process_url" THEN "extract_and_save" ELSE "process_url"

\* the acceptance rules have run on fx
FDecided == fpc \in { "upsert", "returned" }

FAccepted == Len(fhanded) = 1

FRejectedWith(prefix) ==
    /\ fhanded = << >>
    /\ fresult # None
    /\ ~fresult[1].success
    /\ fresult[1].error # << >>
    /\ fresult[1].error[1] = prefix

FHasCard == fx.ec_card # None

FConfidenceBelow(n) == fx.confidence = None \/ fx.confidence[1] < n

FTitleHasRankingMarker ==
    \E m \in { MarkBest, MarkTop, MarkRanking, MarkListOf } :
        Contains(Lower(fx.ec_card[1].title), m)

\* the rules before the ranking rule pass: success, card, confidence >= 0.4, not generic
FEarlierRulesPass ==
    /\ fx.success
    /\ FHasCard
    /\ ~FConfidenceBelow(40)
    /\ fx.ec_card[1].title # TitleUnknown
    /\ fx.ec_card[1].organization \notin { None, Some(""), Some("Unknown") }

\* every acceptance rule the claim lists, on the extraction as the agent returned it
PassesEveryRule(x) ==
    /\ x.success
    /\ x.ec_card # None
    /\ x.confidence # None /\ x.confidence[1] >= 40
    /\ x.ec_card[1].title # TitleUnknown
    /\ x.ec_card[1].organization \notin { None, Some(""), Some("Unknown") }
    /\ \A m \in { MarkBest, MarkTop, MarkRanking, MarkListOf } :
           ~Contains(Lower(x.ec_card[1].title), m)
    /\ ~(x.ec_card[1].is_expired /\ x.ec_card[1].timing_type = "ONE_TIME")

FCrawlUsable ==
    /\ fcrawl.success
    /\ fcrawl.markdown # None
    /\ fcrawl.markdown[1] >= 100

\* the two numeric markers only process_url has
FNumericMarker ==
    /\ fpath = "process_url"
    /\ \E m \in { Mark94, Mark100 } : Contains(Lower(fx.ec_card[1].title), m)

\* C5: on both paths upsert_opportunity is called at most once for a URL, only when
\* the crawl was usable, extractor.extract returned and the record passed every
\* acceptance rule, with that record as argument; it is called for every record
\* the path accepts; and a URL whose crawl or extraction failed or whose record
\* was rejected never reaches it.
C5_UpsertOnlyAccepted ==
    /\ Len(fhanded) <= 1
    /\ Len(fhanded) = 1 =>
          /\ FDecided
          /\ FCrawlUsable
          /\ PassesEveryRule(fx)
          /\ fhanded[1].title = fx.ec_card[1].title
          /\ fhanded[1].organization = fx.ec_card[1].organization
    /\ (FDecided /\ PassesEveryRule(fx) /\ ~FNumericMarker) => Len(fhanded) = 1
    /\ (fresult # None /\ fresult[1].success) => Len(fhanded) = 1
    /\ (fpc = "failed" \/ ~FCrawlUsable) => fhanded = << >>

\* process_url accepted a record and upsert_opportunity returned
C5_Witness ==
    /\ fpath = "process_url"
    /\ fpc = "returned"
    /\ Len(fhanded) = 1
    /\ fresult[1].success
    /\ fresult[1].card[1].title = TitleClean

\* C6: on every extraction outcome process_url and extract_and_save decide alike:
\* the path taken accepts exactly when the other path's rules accept, hands over
\* the same record, and rejects with the same reason.
C6_SameDecision ==
    FDecided =>
        LET other == DecideOn(OtherPath(fpath), fx)
        IN  /\ FAccepted <=> other.accept
            /\ FAccepted => fhanded[1] = other.ec[1]
            /\ ~FAccepted => fresult = Some(ErrorResult(other.error))

\* C7: a confidence below 0.4 (absent counting as 0.0) is always rejected and
\* nothing is handed to upsert; a confidence of exactly 0.4 is accepted when the
\* remaining rules pass.
C7_ConfidenceThreshold ==
    FDecided =>
        /\ FConfidenceBelow(40) =>
              /\ fhanded = << >>
              /\ fresult # None /\ ~fresult[1].success
        /\ ( /\ fx.confidence = Some(40)
             /\ FEarlierRulesPass
             /\ ~IsRanking(fx.ec_card[1].title, IF fpath = "process_url" THEN SingleMarkers ELSE BatchMarkers)
             /\ ~(fx.ec_card[1].is_expired /\ fx.ec_card[1].timing_type = "ONE_TIME") )
           => FAccepted

C7_Witness ==
    /\ fpc = "returned"
    /\ fx.confidence = Some(40)
    /\ FAccepted
    /\ fresult[1].success

FExpiredRecurring ==
    /\ FHasCard
    /\ fx.ec_card[1].is_expired
    /\ fx.ec_card[1].timing_type \in { "ANNUAL", "RECURRING", "SEASONAL" }

\* C8 as stated: every expired ANNUAL, RECURRING or SEASONAL record is accepted and
\* handed to upsert with recheck_days 3.
C8_AsStated ==
    (FDecided /\ fx.success /\ FExpiredRecurring) => (FAccepted /\ fhanded[1].recheck_days = 3)

\* C8 amended: every expired ANNUAL, RECURRING or SEASONAL record that no earlier
\* rule rejects (extraction succeeded, confidence at least 0.4, not generic, title
\* not a ranking article of the path's marker list) is accepted and handed to
\* upsert with recheck_days 3, the other fields as extracted.
C8_RecurringKept ==
    ( /\ FDecided
      /\ FExpiredRecurring
      /\ FEarlierRulesPass
      /\ ~IsRanking(fx.ec_card[1].title, IF fpath = "process_url" THEN SingleMarkers ELSE BatchMarkers) )
    => /\ FAccepted
       /\ fhanded[1] = [fx.ec_card[1] EXCEPT !.recheck_days = 3]

C8_Witness ==
    /\ fpc = "upsert"
    /\ FExpiredRecurring
    /\ fx.ec_card[1].timing_type = "SEASONAL"
    /\ fx.ec_card[1].recheck_days = 14
    /\ fhanded[1].recheck_days = 3

\* C9: an expired ONE_TIME record is rejected and never handed to upsert;
\* recheck_days is written, to 3, only on an expired ANNUAL, RECURRING or SEASONAL
\* record that is accepted, and in every other case, accepted or rejected, the
\* record is left as extracted.
C9_ExpiryExclusive ==
    FDecided =>
        /\ (FHasCard /\ fx.ec_card[1].is_expired /\ fx.ec_card[1].timing_type = "ONE_TIME")
              => /\ fhanded = << >>
                 /\ fresult # None /\ ~fresult[1].success
        /\ fcard # fx.ec_card =>
              /\ FExpiredRecurring
              /\ FAccepted
              /\ fcard = Some([fx.ec_card[1] EXCEPT !.recheck_days = 3])
        /\ FAccepted => fhanded[1] = fcard[1]
        /\ (FAccepted /\ ~FExpiredRecurring) => fhanded[1] = fx.ec_card[1]

C9_Witness ==
    /\ fpc = "returned"
    /\ FEarlierRulesPass
    /\ fx.ec_card[1].title = TitleClean
    /\ fx.ec_card[1].is_expired
    /\ fx.ec_card[1].timing_type = "ONE_TIME"
    /\ FRejectedWith("Expired one-time opportunity (deadline/end date in the past)")

\* C10 as stated: a record whose title holds a ranking marker is rejected with a
\* reason starting "Ranking article", whatever its confidence and organization.
C10_AsStated ==
    (fpc = "returned" /\ fx.success /\ FHasCard /\ FTitleHasRankingMarker)
        => FRejectedWith("Ranking article: ")

\* C10 amended: a record whose title holds a ranking marker is rejected whatever
\* its confidence and organization; the reason starts "Ranking article" and carries
\* the title when the confidence is at least 0.4 and the record is not generic,
\* and is the low-confidence or generic reason otherwise.
C10_RankingRejected ==
    (FDecided /\ fx.success /\ FHasCard /\ FTitleHasRankingMarker) =>
        /\ fhanded = << >>
        /\ fcard = fx.ec_card
        /\ IF FEarlierRulesPass
              THEN fresult = Some(ErrorResult(<< "Ranking article: " >> \o fx.ec_card[1].title))
              ELSE IF FConfidenceBelow(40)
                  THEN FRejectedWith("Low confidence: ")
                  ELSE FRejectedWith("Generic extraction")

C10_Witness ==
    /\ fpc = "returned"
    /\ fx.success
    /\ FHasCard
    /\ fx.ec_card[1].title = TitleTop
    /\ fx.confidence = Some(90)
    /\ FRejectedWith("Ranking article: ")

====
